---------------------------- MODULE Spec2Model ----------------------------
(***************************************************************************)
(* Model of the kelvin_stardate conversion core (core.py) and of its      *)
(* string validators (validators.py).                                     *)
(*                                                                         *)
(* Every function of the library is pure, so the state machine is a       *)
(* calling session: a first call is made on a fresh input, and a later    *)
(* call is made on the value the previous call returned.  The state keeps *)
(* the fresh input (origin), the names of the calls made so far (trail),  *)
(* and the argument and the outcome of the last call (arg, out).          *)
(*                                                                         *)
(* Python strings are sequences of one-character strings.  Two characters *)
(* outside ASCII are written by their code point:                         *)
(*   "U+00B2"  SUPERSCRIPT TWO         str.isdigit() is True, int() fails  *)
(*   "U+0662"  ARABIC-INDIC DIGIT TWO  str.isdigit() is True, int() is 2   *)
(* A float stardate is the record [whole, frac]: whole + frac / 10^5.     *)
(*                                                                         *)
(* The interactive prompt (cli/prompts.py) reads lines until one is       *)
(* accepted; loop keeps what it has shown, read and reported so far.      *)
(***************************************************************************)
EXTENDS Integers, Sequences, FiniteSets, TLC

VARIABLES origin, trail, arg, out, loop
vars == <<origin, trail, arg, out, loop>>

-----------------------------------------------------------------------------
(* Bounds of the model.                                                    *)

\* Each anchor year opens a window of YearSpan consecutive years.
YearSpan == 4
\* Largest ordinal_day of a KelvinStardate value given as a fresh input.
MaxOrdinal == 368
\* Longest chain of calls in one session.
MaxChain == 3
\* Longest fraction part enumerated character by character.
MaxFracLen == 3
\* Longest single-field string enumerated character by character.
MaxFieldLen == 3
\* Most lines one prompt reads.
MaxReads == 3

-----------------------------------------------------------------------------
(* Outcomes of a call: a returned value or a raised exception.             *)

Ok(v) == [kind |-> "ok", value |-> v, code |-> "-"]
Raise(k) == [kind |-> k, value |-> "-", code |-> "-"]
RaiseCLI(c) == [kind |-> "StardateCLIError", value |-> "-", code |-> c]
NoValue == [kind |-> "none", value |-> "-", code |-> "-"]

IsOk(r) == r.kind = "ok"

-----------------------------------------------------------------------------
(* datetime.date as the library uses it.                                   *)

MINYEAR == 1
MAXYEAR == 9999

is_leap_year(year) ==
    year % 4 = 0 /\ (year % 100 # 0 \/ year % 400 = 0)

DaysInMonth(year, month) ==
    IF month = 2 THEN (IF is_leap_year(year) THEN 29 ELSE 28)
    ELSE IF month \in {4, 6, 9, 11} THEN 30 ELSE 31

DaysInYear(year) == IF is_leap_year(year) THEN 366 ELSE 365

RECURSIVE DaysBeforeMonth(_, _)
DaysBeforeMonth(year, month) ==
    IF month = 1 THEN 0
    ELSE DaysBeforeMonth(year, month - 1) + DaysInMonth(year, month - 1)

Date(y, m, d) == [type |-> "date", year |-> y, month |-> m, day |-> d]

IsValidDate(dt) ==
    /\ dt.year \in MINYEAR..MAXYEAR
    /\ dt.month \in 1..12
    /\ dt.day \in 1..DaysInMonth(dt.year, dt.month)

\* dt > other, for two dates
DateAfter(dt, other) ==
    \/ dt.year > other.year
    \/ dt.year = other.year /\ dt.month > other.month
    \/ dt.year = other.year /\ dt.month = other.month /\ dt.day > other.day

day_of_year(dt) == DaysBeforeMonth(dt.year, dt.month) + dt.day

\* date(year, 1, 1) + timedelta(days = days): the date constructor rejects a
\* year outside MINYEAR..MAXYEAR with ValueError, the addition leaves the
\* supported range with OverflowError.
RECURSIVE DatePlusDays(_, _)
DatePlusDays(year, days) ==
    IF year < MINYEAR \/ year > MAXYEAR THEN Raise("OverflowError")
    ELSE IF days < 0 THEN
        (IF year - 1 < MINYEAR THEN Raise("OverflowError")
         ELSE DatePlusDays(year - 1, days + DaysInYear(year - 1)))
    ELSE IF days >= DaysInYear(year) THEN
        DatePlusDays(year + 1, days - DaysInYear(year))
    ELSE LET m == CHOOSE mm \in 1..12 :
                      /\ DaysBeforeMonth(year, mm) <= days
                      /\ days < DaysBeforeMonth(year, mm) + DaysInMonth(year, mm)
         IN Ok(Date(year, m, days - DaysBeforeMonth(year, m) + 1))

NewYearPlusDays(year, days) ==
    IF year < MINYEAR \/ year > MAXYEAR THEN Raise("ValueError")
    ELSE DatePlusDays(year, days)

-----------------------------------------------------------------------------
(* Python str and int as the library uses them.                            *)

AsciiDigits == {"0", "1", "2", "3", "4", "5", "6", "7", "8", "9"}
\* characters of Unicode category Nd: int() reads them as decimal digits
DecimalChars == AsciiDigits \cup {"U+0662"}
\* characters for which str.isdigit() is True
IsDigitChars == DecimalChars \cup {"U+00B2"}
WhitespaceChars == {" "}

DigitValue(c) ==
    CASE c = "0" -> 0 [] c = "1" -> 1 [] c = "2" -> 2 [] c = "3" -> 3
      [] c = "4" -> 4 [] c = "5" -> 5 [] c = "6" -> 6 [] c = "7" -> 7
      [] c = "8" -> 8 [] c = "9" -> 9 [] c = "U+0662" -> 2

DigitChar(n) ==
    CASE n = 0 -> "0" [] n = 1 -> "1" [] n = 2 -> "2" [] n = 3 -> "3"
      [] n = 4 -> "4" [] n = 5 -> "5" [] n = 6 -> "6" [] n = 7 -> "7"
      [] n = 8 -> "8" [] n = 9 -> "9"

\* s.isdigit()
isdigit(s) == Len(s) > 0 /\ \A i \in 1..Len(s) : s[i] \in IsDigitChars

\* c in s
Contains(s, c) == \E i \in 1..Len(s) : s[i] = c

\* s.count(c)
Count(s, c) == Cardinality({i \in 1..Len(s) : s[i] = c})

\* s.strip()
RECURSIVE lstrip(_)
lstrip(s) ==
    IF Len(s) > 0 /\ s[1] \in WhitespaceChars THEN lstrip(Tail(s)) ELSE s

RECURSIVE rstrip(_)
rstrip(s) ==
    IF Len(s) > 0 /\ s[Len(s)] \in WhitespaceChars
    THEN rstrip(SubSeq(s, 1, Len(s) - 1)) ELSE s

strip(s) == rstrip(lstrip(s))

\* s.lower()
UpperLetters ==
    <<"A", "B", "C", "D", "E", "F", "G", "H", "I", "J", "K", "L", "M",
      "N", "O", "P", "Q", "R", "S", "T", "U", "V", "W", "X", "Y", "Z">>
LowerLetters ==
    <<"a", "b", "c", "d", "e", "f", "g", "h", "i", "j", "k", "l", "m",
      "n", "o", "p", "q", "r", "s", "t", "u", "v", "w", "x", "y", "z">>

LowerChar(c) ==
    IF \E i \in 1..26 : UpperLetters[i] = c
    THEN LowerLetters[CHOOSE i \in 1..26 : UpperLetters[i] = c]
    ELSE c

lower(s) == [i \in 1..Len(s) |-> LowerChar(s[i])]

\* index of the first occurrence of c in s, 0 when there is none
FirstIndex(s, c) ==
    IF Contains(s, c)
    THEN CHOOSE i \in 1..Len(s) : s[i] = c /\ \A j \in 1..(i - 1) : s[j] # c
    ELSE 0

\* s.split(c, 1): one part when c is absent, else the two parts around the
\* first c
SplitFirst(s, c) ==
    LET i == FirstIndex(s, c)
    IN IF i = 0 THEN <<s>>
       ELSE <<SubSeq(s, 1, i - 1), SubSeq(s, i + 1, Len(s))>>

\* s.split(c)
RECURSIVE Split(_, _)
Split(s, c) ==
    LET i == FirstIndex(s, c)
    IN IF i = 0 THEN <<s>>
       ELSE <<SubSeq(s, 1, i - 1)>> \o Split(SubSeq(s, i + 1, Len(s)), c)

\* value of a sequence of decimal digit characters
RECURSIVE DigitsValue(_)
DigitsValue(s) ==
    IF Len(s) = 0 THEN 0
    ELSE 10 * DigitsValue(SubSeq(s, 1, Len(s) - 1)) + DigitValue(s[Len(s)])

\* int(s): surrounding whitespace and one sign are allowed, single
\* underscores may separate digits, every digit is of category Nd
py_int(s) ==
    LET t == strip(s)
        body == IF Len(t) > 0 /\ t[1] \in {"+", "-"} THEN Tail(t) ELSE t
        neg == Len(t) > 0 /\ t[1] = "-"
        wellFormed ==
            /\ Len(body) > 0
            /\ \A i \in 1..Len(body) : body[i] \in DecimalChars \cup {"_"}
            /\ body[1] # "_" /\ body[Len(body)] # "_"
            /\ \A i \in 1..(Len(body) - 1) : ~(body[i] = "_" /\ body[i + 1] = "_")
        digits == SelectSeq(body, LAMBDA c : c # "_")
    IN IF ~wellFormed THEN Raise("ValueError")
       ELSE Ok(IF neg THEN 0 - DigitsValue(digits) ELSE DigitsValue(digits))

\* decimal digits of a natural number
RECURSIVE NatToStr(_)
NatToStr(n) ==
    IF n < 10 THEN <<DigitChar(n)>>
    ELSE NatToStr(n \div 10) \o <<DigitChar(n % 10)>>

\* f"{n}"
IntToStr(n) == IF n < 0 THEN <<"-">> \o NatToStr(0 - n) ELSE NatToStr(n)

\* f"{n:0{width}d}": zeros are inserted after the sign up to the width
RECURSIVE ZeroPad(_, _)
ZeroPad(s, width) ==
    IF Len(s) >= width THEN s
    ELSE IF Len(s) > 0 /\ s[1] = "-"
         THEN <<"-">> \o ZeroPad(Tail(s), width - 1)
         ELSE ZeroPad(<<"0">> \o s, width)

-----------------------------------------------------------------------------
(* core.py: values.                                                        *)

\* KelvinStardate(year, ordinal_day)
KelvinStardate(y, d) == [type |-> "KelvinStardate", year |-> y, ordinal_day |-> d]
\* a str value
Str(s) == [type |-> "str", s |-> s]
\* a float stardate: whole + frac / FracScale, 0 <= frac < FracScale
FracScale == 100000
Float(w, f) == [type |-> "float", whole |-> w, frac |-> f]

\* 365.2425, in units of 1/10000
YearLengthE4 == 3652425

\* a * b / c rounded to the nearest integer, for naturals with (a % c) * b
\* small enough for the machine integer; no case of the model is a tie
MulDivRound(a, b, c) ==
    (a \div c) * b + (2 * ((a % c) * b) + c) \div (2 * c)

-----------------------------------------------------------------------------
(* core.py: utilities and the KelvinStardate type.                         *)

\* mutant: the ordinal is always padded to 3 digits
format_ordinal_3_digits(ord_day) ==
    IF ord_day < 1 THEN Raise("StardateError")
    ELSE Ok(ZeroPad(IntToStr(ord_day), 3))

format_ordinal(ord_day) ==
    IF ord_day < 1 THEN Raise("StardateError")
    ELSE IF ord_day < 100 THEN Ok(ZeroPad(IntToStr(ord_day), 2))
    ELSE Ok(ZeroPad(IntToStr(ord_day), 3))

\* KelvinStardate.__str__
KelvinStardate_str(sd) ==
    LET o == format_ordinal(sd.ordinal_day)
    IN IF ~IsOk(o) THEN o
       ELSE Ok(Str(IntToStr(sd.year) \o <<".">> \o o.value))

\* mutant: the ordinal digits are read as a fraction, right-padded to 3
KelvinStardate_parse_fraction(s) ==
    IF ~Contains(s, ".") THEN Raise("StardateError")
    ELSE LET parts == SplitFirst(s, ".")
             year == py_int(parts[1])
             padded == IF Len(parts[2]) = 1 THEN parts[2] \o <<"0", "0">>
                       ELSE IF Len(parts[2]) = 2 THEN parts[2] \o <<"0">>
                       ELSE parts[2]
             ordinal == py_int(padded)
         IN IF ~IsOk(year) THEN year
            ELSE IF ~isdigit(parts[2]) THEN Raise("StardateError")
            ELSE IF ~IsOk(ordinal) THEN ordinal
            ELSE Ok(KelvinStardate(year.value, ordinal.value))

\* KelvinStardate.parse
KelvinStardate_parse(s) ==
    IF ~Contains(s, ".") THEN Raise("StardateError")
    ELSE LET parts == SplitFirst(s, ".")
             year == py_int(parts[1])
             ordinal == py_int(parts[2])
         IN IF ~IsOk(year) THEN year
            ELSE IF ~isdigit(parts[2]) THEN Raise("StardateError")
            ELSE IF ~IsOk(ordinal) THEN ordinal
            ELSE Ok(KelvinStardate(year.value, ordinal.value))

-----------------------------------------------------------------------------
(* core.py: Earth -> stardate.                                             *)

\* mutant: the quotient is cut off after 5 decimals, not rounded
earth_to_stardate_astronomical_truncated(dt) ==
    LET doy == day_of_year(dt)
        c == YearLengthE4 \div 25
        t == ((doy * FracScale) \div c) * 400
             + (((doy * FracScale) % c) * 400) \div c
    IN Float(dt.year + t \div FracScale, t % FracScale)

earth_to_stardate_astronomical(dt) ==
    LET doy == day_of_year(dt)
        \* doy / 365.2425 rounded to 5 decimals, in units of 1 / FracScale
        t == MulDivRound(doy * FracScale, 400, YearLengthE4 \div 25)
    IN Float(dt.year + t \div FracScale, t % FracScale)

\* mutant: the compression starts on Feb 28 itself
no_leap_ordinal_from_feb28(dt, greg) ==
    IF is_leap_year(dt.year) /\ ~DateAfter(Date(dt.year, 2, 28), dt)
    THEN greg - 1
    ELSE greg

\* mutant: the leap day is not compressed out
no_leap_ordinal_uncompressed(dt, greg) == greg

\* the no_leap branch: the ordinal with the leap day compressed out
no_leap_ordinal(dt, greg) ==
    IF is_leap_year(dt.year) /\ DateAfter(dt, Date(dt.year, 2, 28))
    THEN greg - 1
    ELSE greg

\* mutant: the day of the year is counted from 0
earth_to_stardate_zero_based(dt, leap_mode) ==
    IF leap_mode = "astronomical" THEN Ok(earth_to_stardate_astronomical(dt))
    ELSE LET greg == day_of_year(dt) - 1
         IN IF leap_mode = "gregorian"
            THEN Ok(KelvinStardate(dt.year, greg))
            ELSE IF leap_mode = "no_leap"
            THEN Ok(KelvinStardate(dt.year, no_leap_ordinal(dt, greg)))
            ELSE Raise("StardateError")

\* mutant: a mode that is not recognised falls back to no_leap
earth_to_stardate_default_mode(dt, leap_mode) ==
    IF leap_mode = "astronomical" THEN Ok(earth_to_stardate_astronomical(dt))
    ELSE LET greg == day_of_year(dt)
         IN IF leap_mode = "gregorian"
            THEN Ok(KelvinStardate(dt.year, greg))
            ELSE Ok(KelvinStardate(dt.year, no_leap_ordinal(dt, greg)))

earth_to_stardate(dt, leap_mode) ==
    IF leap_mode = "astronomical" THEN Ok(earth_to_stardate_astronomical(dt))
    ELSE LET greg == day_of_year(dt)
         IN IF leap_mode = "gregorian"
            THEN Ok(KelvinStardate(dt.year, greg))
            ELSE IF leap_mode = "no_leap"
            THEN Ok(KelvinStardate(dt.year, no_leap_ordinal(dt, greg)))
            ELSE Raise("StardateError")

-----------------------------------------------------------------------------
(* core.py: stardate -> Earth.                                             *)

\* mutant: a rounding to day 0 is not raised to day 1
stardate_to_earth_astronomical_unclamped(sd) ==
    LET year == sd.whole
        hi == sd.frac * (YearLengthE4 \div 25000)
        lo == sd.frac * ((YearLengthE4 \div 25) % 1000)
        doy == (hi + 20000 + lo \div 1000) \div 40000
    IN NewYearPlusDays(year, doy - 1)

\* mutant: the day of the year is rounded up
stardate_to_earth_astronomical_ceiling(sd) ==
    LET year == sd.whole
        hi == sd.frac * (YearLengthE4 \div 25000)
        lo == sd.frac * ((YearLengthE4 \div 25) % 1000)
        rounded == (hi + 39999 + lo \div 1000) \div 40000
        doy == IF rounded < 1 THEN 1 ELSE rounded
    IN NewYearPlusDays(year, doy - 1)

stardate_to_earth_astronomical(sd) ==
    LET year == sd.whole
        \* round(fraction * 365.2425): frac * 3652425 / 10^9, computed in
        \* thousands to stay within the machine integer
        hi == sd.frac * (YearLengthE4 \div 25000)
        lo == sd.frac * ((YearLengthE4 \div 25) % 1000)
        rounded == (hi + 20000 + lo \div 1000) \div 40000
        doy == IF rounded < 1 THEN 1 ELSE rounded
    IN NewYearPlusDays(year, doy - 1)

\* mutant: the range check ignores the leap year's day 366
gregorian_real_ordinal_365(ordinal, days_in_year) ==
    IF ~(1 <= ordinal /\ ordinal <= 365)
    THEN Raise("StardateError")
    ELSE Ok(ordinal)

\* the gregorian branch: the range check and the real ordinal
gregorian_real_ordinal(ordinal, days_in_year) ==
    IF ~(1 <= ordinal /\ ordinal <= days_in_year)
    THEN Raise("StardateError")
    ELSE Ok(ordinal)

\* mutant: the leap day is not added back
no_leap_real_ordinal_no_addback(year, ordinal, days_in_year) ==
    IF ~(1 <= ordinal /\ ordinal <= 365)
    THEN Raise("StardateError")
    ELSE IF ordinal > days_in_year
    THEN Raise("StardateError")
    ELSE Ok(ordinal)

\* mutant: the leap day is added back from ordinal 59 on
no_leap_real_ordinal_from_59(year, ordinal, days_in_year) ==
    IF ~(1 <= ordinal /\ ordinal <= 365)
    THEN Raise("StardateError")
    ELSE LET real_ordinal == IF is_leap_year(year) /\ ordinal >= 59
                             THEN ordinal + 1
                             ELSE ordinal
         IN IF real_ordinal > days_in_year
            THEN Raise("StardateError")
            ELSE Ok(real_ordinal)

\* mutant: the defensive check takes every year to have 365 days
no_leap_real_ordinal_limit_365(year, ordinal, days_in_year) ==
    IF ~(1 <= ordinal /\ ordinal <= 365)
    THEN Raise("StardateError")
    ELSE LET real_ordinal == IF is_leap_year(year) /\ ordinal > 59
                             THEN ordinal + 1
                             ELSE ordinal
         IN IF real_ordinal > 365
            THEN Raise("StardateError")
            ELSE Ok(real_ordinal)

\* mutant: the leap day is added back only after ordinal 60
no_leap_real_ordinal_after_60(year, ordinal, days_in_year) ==
    IF ~(1 <= ordinal /\ ordinal <= 365)
    THEN Raise("StardateError")
    ELSE LET real_ordinal == IF is_leap_year(year) /\ ordinal > 60
                             THEN ordinal + 1
                             ELSE ordinal
         IN IF real_ordinal > days_in_year
            THEN Raise("StardateError")
            ELSE Ok(real_ordinal)

\* the no_leap branch: the range check, the leap day added back, and the
\* defensive check against the year's length
no_leap_real_ordinal(year, ordinal, days_in_year) ==
    IF ~(1 <= ordinal /\ ordinal <= 365)
    THEN Raise("StardateError")
    ELSE LET real_ordinal == IF is_leap_year(year) /\ ordinal > 59
                             THEN ordinal + 1
                             ELSE ordinal
         IN IF real_ordinal > days_in_year
            THEN Raise("StardateError")
            ELSE Ok(real_ordinal)

\* the date of a year and ordinal: the mode's range check, then
\* date(year, 1, 1) + timedelta(days=real_ordinal - 1)
ordinal_to_earth(year, ordinal, days_in_year, leap_mode) ==
    LET real_ordinal ==
            IF leap_mode = "gregorian"
            THEN gregorian_real_ordinal(ordinal, days_in_year)
            ELSE IF leap_mode = "no_leap"
            THEN no_leap_real_ordinal(year, ordinal, days_in_year)
            ELSE Raise("StardateError")
    IN IF ~IsOk(real_ordinal) THEN real_ordinal
       ELSE NewYearPlusDays(year, real_ordinal.value - 1)

\* the conversion of a stardate once parsed; a failure of the parse is the
\* result
parsed_to_earth(parsed, leap_mode) ==
    IF ~IsOk(parsed) THEN parsed
    ELSE ordinal_to_earth(parsed.value.year, parsed.value.ordinal_day,
                          IF is_leap_year(parsed.value.year) THEN 366 ELSE 365,
                          leap_mode)

\* the Kelvin ordinal modes: the part of stardate_to_earth after the
\* astronomical branch
kelvin_to_earth(sd, leap_mode) ==
    IF sd.type = "float" THEN Raise("StardateError")
    ELSE parsed_to_earth(IF sd.type = "str" THEN KelvinStardate_parse(sd.s)
                         ELSE Ok(sd),
                         leap_mode)

\* mutant: an ordinal stardate given in astronomical mode is converted as in
\* no_leap mode
stardate_to_earth_lenient(sd, leap_mode) ==
    IF leap_mode = "astronomical"
    THEN (IF sd.type \in {"str", "KelvinStardate"}
          THEN kelvin_to_earth(sd, "no_leap")
          ELSE stardate_to_earth_astronomical(sd))
    ELSE kelvin_to_earth(sd, leap_mode)

stardate_to_earth(sd, leap_mode) ==
    IF leap_mode = "astronomical"
    THEN (IF sd.type \in {"str", "KelvinStardate"} THEN Raise("StardateError")
          ELSE stardate_to_earth_astronomical(sd))
    ELSE kelvin_to_earth(sd, leap_mode)

-----------------------------------------------------------------------------
(* validators.py                                                           *)

\* MONTH_LOOKUP, as the pairs <<name, month>>
MONTH_LOOKUP ==
    { <<<<"j", "a", "n">>, 1>>,
      <<<<"j", "a", "n", "u", "a", "r", "y">>, 1>>,
      <<<<"f", "e", "b">>, 2>>,
      <<<<"f", "e", "b", "r", "u", "a", "r", "y">>, 2>>,
      <<<<"m", "a", "r">>, 3>>,
      <<<<"m", "a", "r", "c", "h">>, 3>>,
      <<<<"a", "p", "r">>, 4>>,
      <<<<"a", "p", "r", "i", "l">>, 4>>,
      <<<<"m", "a", "y">>, 5>>,
      <<<<"j", "u", "n">>, 6>>,
      <<<<"j", "u", "n", "e">>, 6>>,
      <<<<"j", "u", "l">>, 7>>,
      <<<<"j", "u", "l", "y">>, 7>>,
      <<<<"a", "u", "g">>, 8>>,
      <<<<"a", "u", "g", "u", "s", "t">>, 8>>,
      <<<<"s", "e", "p">>, 9>>,
      <<<<"s", "e", "p", "t">>, 9>>,
      <<<<"s", "e", "p", "t", "e", "m", "b", "e", "r">>, 9>>,
      <<<<"o", "c", "t">>, 10>>,
      <<<<"o", "c", "t", "o", "b", "e", "r">>, 10>>,
      <<<<"n", "o", "v">>, 11>>,
      <<<<"n", "o", "v", "e", "m", "b", "e", "r">>, 11>>,
      <<<<"d", "e", "c">>, 12>>,
      <<<<"d", "e", "c", "e", "m", "b", "e", "r">>, 12>> }

MonthNames == {e[1] : e \in MONTH_LOOKUP}
MonthOf(name) == (CHOOSE e \in MONTH_LOOKUP : e[1] = name)[2]

require_non_empty(value) ==
    IF strip(value) = <<>> THEN RaiseCLI("E001") ELSE Ok(Str(value))

parse_year(value) ==
    LET raw == strip(value)
        y == py_int(raw)
    IN IF ~IsOk(require_non_empty(value)) THEN require_non_empty(value)
       ELSE IF Contains(raw, ".") THEN RaiseCLI("E007")
       ELSE IF ~isdigit(raw) THEN RaiseCLI("E007")
       ELSE IF ~IsOk(y) THEN y
       ELSE IF ~(1 <= y.value /\ y.value <= 9999) THEN RaiseCLI("E008")
       ELSE y

parse_year_yyyy(value) ==
    LET raw == strip(value)
        y == py_int(raw)
    IN IF ~IsOk(require_non_empty(value)) THEN require_non_empty(value)
       ELSE IF Contains(raw, ".") THEN RaiseCLI("E007")
       ELSE IF ~isdigit(raw) THEN RaiseCLI("E007")
       ELSE IF Len(raw) # 4 THEN RaiseCLI("E007")
       ELSE IF ~IsOk(y) THEN y
       ELSE IF ~(1 <= y.value /\ y.value <= 9999) THEN RaiseCLI("E008")
       ELSE y

parse_month(value) ==
    LET raw == lower(strip(value))
        m == py_int(raw)
    IN IF ~IsOk(require_non_empty(value)) THEN require_non_empty(value)
       ELSE IF raw \in MonthNames THEN Ok(MonthOf(raw))
       ELSE IF isdigit(raw)
       THEN (IF ~IsOk(m) THEN m
             ELSE IF 1 <= m.value /\ m.value <= 12 THEN m
             ELSE RaiseCLI("E002"))
       ELSE RaiseCLI("E002")

parse_day(value) ==
    LET raw == strip(value)
        d == py_int(raw)
    IN IF ~IsOk(require_non_empty(value)) THEN require_non_empty(value)
       ELSE IF ~isdigit(raw) THEN RaiseCLI("E002")
       ELSE IF ~IsOk(d) THEN d
       ELSE IF ~(1 <= d.value /\ d.value <= 31) THEN RaiseCLI("E002")
       ELSE d

\* is_leap_year_fn is "None" or the name of the function passed
LeapCheck(is_leap_year_fn, y) ==
    IF is_leap_year_fn = "is_leap_year" THEN is_leap_year(y) ELSE FALSE

\* mutant: a Feb 29 that fails the leap check is reported as a day out of range
parse_earth_date_day_range(date_str, is_leap_year_fn) ==
    LET raw_date == strip(date_str)
        parts == Split(raw_date, "-")
        y == parse_year(parts[1])
        m == parse_month(parts[2])
        d == parse_day(parts[3])
    IN IF ~IsOk(require_non_empty(date_str)) THEN require_non_empty(date_str)
       ELSE IF Len(parts) # 3 THEN RaiseCLI("E012")
       ELSE IF ~IsOk(y) THEN y
       ELSE IF ~IsOk(m) THEN m
       ELSE IF ~IsOk(d) THEN d
       ELSE IF /\ is_leap_year_fn # "None"
               /\ m.value = 2 /\ d.value = 29
               /\ ~LeapCheck(is_leap_year_fn, y.value)
       THEN RaiseCLI("E002")
       ELSE Ok(<<y.value, m.value, d.value>>)

parse_earth_date(date_str, is_leap_year_fn) ==
    LET raw_date == strip(date_str)
        parts == Split(raw_date, "-")
        y == parse_year(parts[1])
        m == parse_month(parts[2])
        d == parse_day(parts[3])
    IN IF ~IsOk(require_non_empty(date_str)) THEN require_non_empty(date_str)
       ELSE IF Len(parts) # 3 THEN RaiseCLI("E012")
       ELSE IF ~IsOk(y) THEN y
       ELSE IF ~IsOk(m) THEN m
       ELSE IF ~IsOk(d) THEN d
       ELSE IF /\ is_leap_year_fn # "None"
               /\ m.value = 2 /\ d.value = 29
               /\ ~LeapCheck(is_leap_year_fn, y.value)
       THEN RaiseCLI("E003")
       ELSE Ok(<<y.value, m.value, d.value>>)

\* mutant: the string is returned as given, surrounding whitespace included
validate_stardate_string_untrimmed(sd_str) ==
    LET s == strip(sd_str)
        parts == SplitFirst(s, ".")
        left == parts[1]
        right == parts[2]
        year == py_int(left)
    IN IF ~IsOk(require_non_empty(sd_str)) THEN require_non_empty(sd_str)
       ELSE IF Contains(s, "-") THEN RaiseCLI("E011")
       ELSE IF ~Contains(s, ".") THEN RaiseCLI("E005")
       ELSE IF Count(s, ".") # 1 THEN RaiseCLI("E011")
       ELSE IF left = <<>> \/ right = <<>> THEN RaiseCLI("E011")
       ELSE IF ~isdigit(left) \/ ~isdigit(right) THEN RaiseCLI("E011")
       ELSE IF Len(left) # 4 THEN RaiseCLI("E011")
       ELSE IF ~IsOk(year) THEN year
       ELSE IF ~(1 <= year.value /\ year.value <= 9999) THEN RaiseCLI("E011")
       ELSE IF Len(right) > 8 THEN RaiseCLI("E011")
       ELSE Ok(Str(sd_str))

validate_stardate_string(sd_str) ==
    LET s == strip(sd_str)
        parts == SplitFirst(s, ".")
        left == parts[1]
        right == parts[2]
        year == py_int(left)
    IN IF ~IsOk(require_non_empty(sd_str)) THEN require_non_empty(sd_str)
       ELSE IF Contains(s, "-") THEN RaiseCLI("E011")
       ELSE IF ~Contains(s, ".") THEN RaiseCLI("E005")
       ELSE IF Count(s, ".") # 1 THEN RaiseCLI("E011")
       ELSE IF left = <<>> \/ right = <<>> THEN RaiseCLI("E011")
       ELSE IF ~isdigit(left) \/ ~isdigit(right) THEN RaiseCLI("E011")
       ELSE IF Len(left) # 4 THEN RaiseCLI("E011")
       ELSE IF ~IsOk(year) THEN year
       ELSE IF ~(1 <= year.value /\ year.value <= 9999) THEN RaiseCLI("E011")
       ELSE IF Len(right) > 8 THEN RaiseCLI("E011")
       ELSE Ok(Str(s))

\* mutant: the ordinal 000 is let through
kelvin_ordinal_checked_from_0(v, right) ==
    IF Len(right) # 3 THEN RaiseCLI("E011")
    ELSE IF ~IsOk(py_int(right)) THEN py_int(right)
    ELSE IF ~(0 <= py_int(right).value /\ py_int(right).value <= 366)
    THEN RaiseCLI("E011")
    ELSE v

\* the checks on the ordinal part right of the validated string v
kelvin_ordinal_checked(v, right) ==
    IF Len(right) # 3 THEN RaiseCLI("E011")
    ELSE IF ~IsOk(py_int(right)) THEN py_int(right)
    ELSE IF ~(1 <= py_int(right).value /\ py_int(right).value <= 366)
    THEN RaiseCLI("E011")
    ELSE v

\* validate_kelvin_stardate_string once validate_stardate_string gave v
kelvin_validated(v) ==
    IF ~IsOk(v) THEN v
    ELSE kelvin_ordinal_checked(v, SplitFirst(v.value.s, ".")[2])

validate_kelvin_stardate_string(sd_str) ==
    kelvin_validated(validate_stardate_string(sd_str))

\* mutant: four fraction digits still count as an ordinal stardate
detect_stardate_type_over_4(sd) ==
    LET s == strip(sd)
        parts == SplitFirst(s, ".")
    IN IF Len(parts) # 2 THEN "kelvin"
       ELSE IF ~isdigit(parts[2]) THEN "kelvin"
       ELSE IF Len(parts[2]) > 4 THEN "astronomical" ELSE "kelvin"

detect_stardate_type(sd) ==
    LET s == strip(sd)
        parts == SplitFirst(s, ".")
    IN IF Len(parts) # 2 THEN "kelvin"
       ELSE IF ~isdigit(parts[2]) THEN "kelvin"
       ELSE IF Len(parts[2]) >= 4 THEN "astronomical" ELSE "kelvin"

\* the command line's own copy of the detector: the string is not trimmed
main_detect_stardate_type(sd) ==
    LET parts == SplitFirst(sd, ".")
    IN IF Len(parts) # 2 THEN "kelvin"
       ELSE IF ~isdigit(parts[2]) THEN "kelvin"
       ELSE IF Len(parts[2]) >= 4 THEN "astronomical" ELSE "kelvin"

-----------------------------------------------------------------------------
(* The prompt helpers (cli/prompts.py).                                    *)

PyNone == [type |-> "NoneType"]
QuitWords == {<<"q">>, <<"-", "q">>, <<"/", "q">>, <<"q", "u", "i", "t">>, <<"e", "x", "i", "t">>}
HelpWords == {<<"h">>, <<"/", "h">>, <<"-", "h">>, <<"-", "-", "h", "e", "l", "p">>, <<"-", "h", "e", "l", "p">>, <<"h", "e", "l", "p">>, <<"/", "h", "e", "l", "p">>}

\* the outcome of check_user_input and the number of calls of help_cb made
Checked(outcome, help_calls) == [outcome |-> outcome, help_calls |-> help_calls]

\* mutant: a help word restarts the prompt without calling help_cb
check_user_input_no_help(value, help_cb) ==
    IF value = PyNone THEN Checked(RaiseCLI("E001"), 0)
    ELSE LET stripped == lower(strip(value.s))
         IN IF stripped \in QuitWords THEN Checked(Raise("SystemExit"), 0)
            ELSE IF stripped \in HelpWords
            THEN Checked(Raise("ContinuePrompt"), 0)
            ELSE IF stripped = <<>> THEN Checked(RaiseCLI("E001"), 0)
            ELSE Checked(Ok(value), 0)

check_user_input(value, help_cb) ==
    IF value = PyNone THEN Checked(RaiseCLI("E001"), 0)
    ELSE LET stripped == lower(strip(value.s))
         IN IF stripped \in QuitWords THEN Checked(Raise("SystemExit"), 0)
            ELSE IF stripped \in HelpWords
            THEN Checked(Raise("ContinuePrompt"),
                         IF help_cb # "None" THEN 1 ELSE 0)
            ELSE IF stripped = <<>> THEN Checked(RaiseCLI("E001"), 0)
            ELSE Checked(Ok(value), 0)

\* the parsers interactive_menu hands to prompt_until_valid
ParserFuncs ==
    {"parse_year_yyyy", "parse_month", "parse_day",
     "validate_stardate_string", "validate_kelvin_stardate_string"}

parser_func(name, raw) ==
    CASE name = "parse_year_yyyy" -> parse_year_yyyy(raw)
      [] name = "parse_month" -> parse_month(raw)
      [] name = "parse_day" -> parse_day(raw)
      [] name = "validate_stardate_string" -> validate_stardate_string(raw)
      [] name = "validate_kelvin_stardate_string" ->
            validate_kelvin_stardate_string(raw)

\* the loop is still reading
Pending == [kind |-> "pending", value |-> "-", code |-> "-"]

\* the loop after input() returned the line raw: the prompt is shown the
\* first time, the reprompt afterwards
line_read(lp, raw) ==
    [lp EXCEPT !.first = FALSE,
               !.shown = Append(@, IF lp.first THEN "prompt" ELSE "reprompt"),
               !.lines = Append(@, raw)]

\* mutant: a ValueError of the parser is not caught
prompt_except_value_error_escapes(read, res, help_calls) ==
    IF res.kind = "ContinuePrompt"
    THEN [loop |-> [read EXCEPT !.helped = @ + help_calls], out |-> Pending]
    ELSE IF res.kind = "StardateCLIError"
    THEN [loop |-> [read EXCEPT !.reported = Append(@, res.code)],
          out |-> Pending]
    ELSE [loop |-> read, out |-> res]

\* the except clauses of prompt_until_valid, for the outcome res of the try
\* block: the loop goes on after ContinuePrompt, a StardateCLIError (printed)
\* and a ValueError (printed as E002); anything else ends it
prompt_except(read, res, help_calls) ==
    IF res.kind = "ContinuePrompt"
    THEN [loop |-> [read EXCEPT !.helped = @ + help_calls], out |-> Pending]
    ELSE IF res.kind = "StardateCLIError"
    THEN [loop |-> [read EXCEPT !.reported = Append(@, res.code)],
          out |-> Pending]
    ELSE IF res.kind = "ValueError"
    THEN [loop |-> [read EXCEPT !.reported = Append(@, "E002")],
          out |-> Pending]
    ELSE [loop |-> read, out |-> res]

\* the try block after check_user_input gave chk: the parser runs on the
\* line when the check let it through
prompt_checked(lp, name, raw, chk) ==
    prompt_except(line_read(lp, raw),
                  IF IsOk(chk.outcome) THEN parser_func(name, raw)
                  ELSE chk.outcome,
                  chk.help_calls)

\* one pass of the while loop of prompt_until_valid on the line raw: the
\* text shown, the check, the parser, and the except clauses
prompt_pass(lp, name, raw) ==
    prompt_checked(lp, name, raw, check_user_input(Str(raw), lp.help_cb))

\* the body of prompt_menu_choice for the line raw, with the menu of
\* interactive_menu: valid = ("1", "2"), code E009
menu_choice(raw) ==
    IF strip(raw) \in {<<"1">>, <<"2">>} THEN Ok(Str(strip(raw)))
    ELSE RaiseCLI("E009")

\* the body of prompt_yes_no for the line raw
yes_no(raw) ==
    LET s == lower(strip(raw))
    IN IF s \in {<<"y">>, <<"y", "e", "s">>} THEN Ok(TRUE)
       ELSE IF s \in {<<"n">>, <<"n", "o">>} THEN Ok(FALSE)
       ELSE RaiseCLI("E010")

\* the except clauses of prompt_menu_choice and prompt_yes_no
choice_except(read, res, help_calls) ==
    IF res.kind = "ContinuePrompt"
    THEN [loop |-> [read EXCEPT !.helped = @ + help_calls], out |-> Pending]
    ELSE IF res.kind = "StardateCLIError"
    THEN [loop |-> [read EXCEPT !.reported = Append(@, res.code)],
          out |-> Pending]
    ELSE [loop |-> read, out |-> res]

choice_checked(lp, op, raw, chk) ==
    choice_except(line_read(lp, raw),
                  IF ~IsOk(chk.outcome) THEN chk.outcome
                  ELSE IF op = "prompt_menu_choice" THEN menu_choice(raw)
                  ELSE yes_no(raw),
                  chk.help_calls)

\* one pass of the while loop of prompt_menu_choice or prompt_yes_no
choice_pass(lp, op, raw) ==
    choice_checked(lp, op, raw, check_user_input(Str(raw), lp.help_cb))

-----------------------------------------------------------------------------
(* The exception classes (core.py, errors.py) and the package's exports    *)
(* (__init__.py).                                                          *)

\* the class of the exception an outcome raises: the core functions raise
\* the StardateError core.py defines, the validators, prompts and command
\* line operations raise errors.py's StardateCLIError
ExceptionClass(outcome) ==
    IF outcome.kind = "StardateError" THEN "core.StardateError"
    ELSE IF outcome.kind = "StardateCLIError" THEN "errors.StardateCLIError"
    ELSE outcome.kind

\* the base class each class statement names
BaseClass(cls) ==
    IF cls = "errors.StardateCLIError" THEN "errors.StardateError"
    ELSE IF cls \in {"errors.StardateError", "core.StardateError"}
    THEN "Exception"
    ELSE IF cls \in {"ValueError", "OverflowError", "ContinuePrompt"}
    THEN "Exception"
    ELSE "BaseException"

\* issubclass(cls, base), for the classes above
RECURSIVE issubclass(_, _)
issubclass(cls, base) ==
    IF cls = base THEN TRUE
    ELSE IF cls = "BaseException" THEN FALSE
    ELSE issubclass(BaseClass(cls), base)

\* the StardateError the package exports: `from .errors import StardateError`
ExportedStardateError == "errors.StardateError"

-----------------------------------------------------------------------------
(* The error registry (errors.py) and the command line's other operations *)
(* (cli/main.py).                                                          *)

\* the keys of ERROR_REGISTRY
ERROR_REGISTRY ==
    {"E001", "E002", "E003", "E004", "E005", "E006", "E007", "E008", "E009",
     "E010", "E011", "E012"}

\* mutant: an unknown mode is reported under a code of its own
normalize_mode_new_code(mode0) ==
    LET mode == strip(lower(mode0))
    IN IF mode \in {<<"1">>, <<"n", "o", "_", "l", "e", "a", "p">>, <<"n", "o", "l", "e", "a", "p">>, <<"n", "l">>,
                   <<"c", "a", "n", "o", "n">>, <<"o", "r", "d", "i", "n", "a", "l">>}
       THEN Ok("no_leap")
       ELSE IF mode \in {<<"2">>, <<"g", "r", "e", "g", "o", "r", "i", "a", "n">>, <<"g", "r", "e", "g">>, <<"g", "r">>}
       THEN Ok("gregorian")
       ELSE IF mode \in {<<"3">>, <<"a", "s", "t", "r", "o", "n", "o", "m", "i", "c", "a", "l">>, <<"a", "s", "t", "r", "o">>, <<"a", "s", "t", "r">>}
       THEN Ok("astronomical")
       ELSE IF mode \in {<<"4">>, <<"a", "l", "l">>, <<"a">>}
       THEN Ok("all")
       ELSE RaiseCLI("E013")

normalize_mode(mode0) ==
    LET mode == strip(lower(mode0))
    IN IF mode \in {<<"1">>, <<"n", "o", "_", "l", "e", "a", "p">>, <<"n", "o", "l", "e", "a", "p">>, <<"n", "l">>,
                   <<"c", "a", "n", "o", "n">>, <<"o", "r", "d", "i", "n", "a", "l">>}
       THEN Ok("no_leap")
       ELSE IF mode \in {<<"2">>, <<"g", "r", "e", "g", "o", "r", "i", "a", "n">>, <<"g", "r", "e", "g">>, <<"g", "r">>}
       THEN Ok("gregorian")
       ELSE IF mode \in {<<"3">>, <<"a", "s", "t", "r", "o", "n", "o", "m", "i", "c", "a", "l">>, <<"a", "s", "t", "r", "o">>, <<"a", "s", "t", "r">>}
       THEN Ok("astronomical")
       ELSE IF mode \in {<<"4">>, <<"a", "l", "l">>, <<"a">>}
       THEN Ok("all")
       ELSE RaiseCLI("E006")

\* what do_earth_to_stardate prints
ForwardResult(label, stardate, input_earth) ==
    [type |-> "forward_result", label |-> label, stardate |-> stardate,
     input_earth |-> input_earth]

AllForwardResults(input_earth, nl, gr, astr) ==
    [type |-> "all_forward_results", input_earth |-> input_earth,
     no_leap |-> nl, gregorian |-> gr, astronomical |-> astr]

do_earth_to_stardate(y, m, d, mode) ==
    LET dt == Date(y, m, d)
        sd == IF mode = "astronomical"
              THEN Ok(earth_to_stardate_astronomical(dt))
              ELSE earth_to_stardate(dt, mode)
    IN IF ~IsValidDate(dt) THEN RaiseCLI("E002")
       ELSE IF mode = "all"
       THEN Ok(AllForwardResults(dt,
                earth_to_stardate(dt, "no_leap").value,
                earth_to_stardate(dt, "gregorian").value,
                earth_to_stardate_astronomical(dt)))
       ELSE IF ~IsOk(sd) THEN sd
       ELSE Ok(ForwardResult(mode, sd.value, dt))

-----------------------------------------------------------------------------
(* The command line's stardate-to-Earth operation (cli/main.py).           *)

RECURSIVE Pow10(_)
Pow10(n) == IF n = 0 THEN 1 ELSE 10 * Pow10(n - 1)

\* int(round(fraction * 365.2425)) for a fraction of f8 / 10^8: the product
\* f8 * 146097 / (4 * 10^10), taken in two halves of four digits
round_days(f8) ==
    LET a == f8 \div 10000
        b == f8 % 10000
        c == YearLengthE4 \div 25
    IN (a * c + 2000000 + (b * c) \div 10000) \div 4000000

\* stardate_to_earth_astronomical(float(sd_str)) for a string that
\* validate_stardate_string returned: a 4-digit year, ".", 1 to 8 digits
float_stardate_to_earth_astronomical(sd_str) ==
    LET parts == SplitFirst(sd_str, ".")
        right == parts[2]
        year == py_int(parts[1]).value
        rounded == round_days(DigitsValue(right) * Pow10(8 - Len(right)))
        doy == IF rounded < 1 THEN 1 ELSE rounded
    IN IF \E i \in 1..Len(right) : right[i] \notin DecimalChars
       THEN Raise("ValueError")
       ELSE NewYearPlusDays(year, doy - 1)

\* what print_single_result shows
SingleResult(label, earth_date, input_sd) ==
    [type |-> "single_result", label |-> label, earth_date |-> earth_date,
     input_sd |-> input_sd]

\* one line of the all-modes block: the date, or ERROR
AllModesLine(r) == IF IsOk(r) THEN r.value ELSE [type |-> "ERROR"]

AllResults(input_sd, nl, gr, astr) ==
    [type |-> "all_results", input_sd |-> input_sd, no_leap |-> nl,
     gregorian |-> gr, astronomical |-> astr]

\* the all-modes block: each conversion on its own, a failure shown as ERROR
do_stardate_to_earth_all(sd_str) ==
    Ok(AllResults(sd_str,
        AllModesLine(stardate_to_earth(Str(sd_str), "no_leap")),
        AllModesLine(stardate_to_earth(Str(sd_str), "gregorian")),
        AllModesLine(float_stardate_to_earth_astronomical(sd_str))))

\* the end of the single-mode path, for the conversion's outcome r
do_stardate_to_earth_shown(r, label, sd_str) ==
    IF r.kind = "OverflowError" THEN RaiseCLI("E011")
    ELSE IF ~IsOk(r) THEN r
    ELSE Ok(SingleResult(label, r.value, sd_str))

\* the single-mode path: astronomical when the mode or the detector says so
do_stardate_to_earth_single(sd_str, mode, auto) ==
    IF mode = "astronomical" \/ auto = "astronomical"
    THEN do_stardate_to_earth_shown(
             float_stardate_to_earth_astronomical(sd_str), "astronomical",
             sd_str)
    ELSE do_stardate_to_earth_shown(
             stardate_to_earth(Str(sd_str), mode), mode, sd_str)

\* the operation after validate_stardate_string gave v
do_stardate_to_earth_validated(v, mode) ==
    IF ~IsOk(v) THEN v
    ELSE IF mode = "all" THEN do_stardate_to_earth_all(v.value.s)
    ELSE do_stardate_to_earth_single(v.value.s, mode,
                                     main_detect_stardate_type(v.value.s))

do_stardate_to_earth(sd_str0, mode) ==
    do_stardate_to_earth_validated(validate_stardate_string(sd_str0), mode)

-----------------------------------------------------------------------------
(* Inputs of the model.                                                    *)

AnchorYears == {1, 1897, 1997, 2257, 9996}

\* years that have calendar dates
Years ==
    {y \in MINYEAR..MAXYEAR : \E a \in AnchorYears : a <= y /\ y < a + YearSpan}

Dates ==
    {dt \in [type : {"date"}, year : Years, month : 1..12, day : 1..31] :
        IsValidDate(dt)}

Modes == {"no_leap", "gregorian", "astronomical", "all", "greg"}

\* KelvinStardate performs no validation: any year and ordinal can be built
StardateYears == Years \cup {0 - 5, 0, 10000, 12345}
StardateOrdinals == (0..MaxOrdinal) \cup {999, 1000, 1001, 12345}
FreshStardates ==
    {KelvinStardate(y, d) : y \in StardateYears, d \in StardateOrdinals}

\* float stardates with 5 decimals
FracSamples ==
    {0, 1, 136, 137, 273, 274, 410, 411, 11499, 50000, 99795, 99796,
     99863, 99864, 99931, 99932, 99933, 99999}
FreshFloats == {Float(y, f) : y \in Years \cup {0, 10000}, f \in FracSamples}
\* a spread of 5-decimal fractions for the astronomical inverse
NumFracs == 400
FracSpread == {(i * 9973) % FracScale : i \in 0..NumFracs}
AstronomicalFloats ==
    FreshFloats \cup {Float(y, f) : y \in Years \cup {0, 10000}, f \in FracSpread}

StringsUpTo(alphabet, n) == UNION {[1..k -> alphabet] : k \in 0..n}

\* stardate-shaped strings: left part, separator, fraction part
FracAlphabet == {"0", "1", "3", "6", "7", "U+00B2", "U+0662"}
FracParts == StringsUpTo(FracAlphabet, MaxFracLen)
LeftParts ==
    { <<"2", "2", "5", "8">>, <<"2", "2", "6", "0">>,
      <<"0", "0", "0", "0">>, <<"0", "0", "0", "1">>,
      <<"9", "9", "9", "9">>, <<"2", "2", "5">>,
      <<"2", "2", "5", "8", "8">>, <<"2", "2", "A", "8">>,
      <<"U+00B2", "U+00B2", "U+00B2", "U+00B2">>,
      <<"U+0662", "U+0662", "U+0662", "U+0662">>, <<"2", " ", "5", "8">>,
      <<"+", "2", "2", "5">> }
CuratedStardateStrings ==
    { <<>>, <<" ", " ", " ">>,
      <<" ", "2", "2", "5", "8", ".", "0", "4", "2", " ">>,
      <<"2", "2", "5", "8", ".", "0", "4", "2", " ">>,
      <<" ", "2", "2", "6", "0", ".", "3", "6", "6">>,
      <<"2", "2", "5", "8", ".", "0", "4", ".", "2">>,
      <<"2", "2", "5", "8", "-", "0", "2", "-", "1", "1">>,
      <<"2", "2", "5", "8", ".", "9", "9", "9">>,
      <<"2", "2", "5", "8", ".", "4", "2">>,
      <<"2", "2", "5", "8", ".", "1", "2", "3", "4", "5", "6", "7", "8">>,
      <<"2", "2", "5", "8", ".", "1", "2", "3", "4", "5", "6", "7", "8", "9">>,
      <<"2", "2", "5", "8", ".", "1", "2", "3", "4">>,
      <<"2", "2", "5", "8", ".", "0", "4", "2", "0">>,
      <<"2", "2", "5", "8">>, <<"2", "2", "5", "8", ".">>,
      <<" ", " ", ".", "0", "4", "2">>,
      <<"2", "2", "5", "8", ".", " ", "4", "2">>,
      <<"2", "2", "5", "8", ".", "-", "4", "2">>,
      <<"-", "2", "2", "5", "8", ".", "0", "4", "2">>,
      <<"2", "2", "5", "8", ".", "0", "4", "U+00B2", "0">>,
      <<"2", "2", "5", "8", ".", "U+0662", "U+0662", "U+0662">> }
StardateStrings ==
    {l \o <<".">> \o r : l \in LeftParts, r \in FracParts}
    \cup {<<"2", "2", "5", "8">> \o sep \o r :
             sep \in {<<>>, <<".", ".">>, <<"-">>}, r \in FracParts}
    \cup CuratedStardateStrings

\* single-field strings
FieldAlphabet == {"0", "1", "2", "3", "9", " ", ".", "a", "U+00B2", "U+0662"}
YearStrings ==
    { <<"2", "2", "5", "8">>, <<"2", "2", "6", "0">>,
      <<"1", "9", "0", "0">>, <<"0", "0", "0", "0">>,
      <<"0", "0", "0", "1">>, <<"9", "9", "9", "9">>,
      <<"1", "0", "0", "0", "0">>, <<"9", "9", "9", "9", "9">>,
      <<"2", "2", "5">>, <<"2", "2", "A", "8">>,
      <<"U+00B2", "U+00B2", "U+00B2", "U+00B2">>,
      <<"U+0662", "U+0662", "U+0662", "U+0662">>, <<" ", "2", "2", "5", "8", " ">>,
      <<"+", "2", "2", "5">>, <<"2", "_", "5", "8">>,
      <<"2", "2", ".", "8">>, <<"-", "2", "2", "5">>,
      <<"9", "9", "9", "9", "9", "9", "9", "9", "9">> }
MonthStrings ==
    { <<"j", "a", "n">>, <<"j", "a", "n", "u", "a", "r", "y">>,
      <<"f", "e", "b">>, <<"f", "e", "b", "r", "u", "a", "r", "y">>,
      <<"m", "a", "r">>, <<"m", "a", "r", "c", "h">>, <<"a", "p", "r">>,
      <<"a", "p", "r", "i", "l">>, <<"m", "a", "y">>, <<"j", "u", "n">>,
      <<"j", "u", "n", "e">>, <<"j", "u", "l">>, <<"j", "u", "l", "y">>,
      <<"a", "u", "g">>, <<"a", "u", "g", "u", "s", "t">>,
      <<"s", "e", "p">>, <<"s", "e", "p", "t">>,
      <<"s", "e", "p", "t", "e", "m", "b", "e", "r">>, <<"o", "c", "t">>,
      <<"o", "c", "t", "o", "b", "e", "r">>, <<"n", "o", "v">>,
      <<"n", "o", "v", "e", "m", "b", "e", "r">>, <<"d", "e", "c">>,
      <<"d", "e", "c", "e", "m", "b", "e", "r">>, <<"J", "a", "n">>,
      <<"S", "E", "P", "T">>, <<" ", "f", "e", "b", " ">>,
      <<"S", "e", "p", "t", "e", "m", "b", "e", "r">>,
      <<"m", "o", "n", "t", "h", "y">>, <<"j", "a">>,
      <<"j", "a", "n", "u">>, <<"s", "e", "p", "t", ".">>, <<"1", "2">>,
      <<"1", "3">>, <<"0", "1", "2">>, <<"0", "0">> }
FieldStrings ==
    StringsUpTo(FieldAlphabet, MaxFieldLen) \cup YearStrings \cup MonthStrings

\* Earth-date strings: year, month and day fields joined by "-"
EarthYearFields ==
    { <<"2", "2", "5", "8">>, <<"2", "2", "6", "0">>, <<"0">>,
      <<"1", "0", "0", "0", "0">>, <<"2", "2", "A", "8">>, <<"U+00B2">>,
      <<>>, <<" ", "2", "2", "5", "8">> }
EarthMonthFields ==
    { <<"0", "2">>, <<"2">>, <<"f", "e", "b">>, <<"F", "e", "b">>,
      <<"1", "3">>, <<"0">>, <<"x">>, <<"U+00B2">>, <<>> }
EarthDayFields ==
    { <<"2", "9">>, <<"2", "8">>, <<"1">>, <<"3", "1">>, <<"3", "2">>,
      <<"0">>, <<"x">>, <<"U+00B2">>, <<>>, <<" ", "2", "9", " ">> }
EarthDateStrings ==
    {y \o <<"-">> \o m \o <<"-">> \o d :
        y \in EarthYearFields, m \in EarthMonthFields, d \in EarthDayFields}
    \cup { <<>>, <<" ", " ">>,
           <<"2", "2", "5", "8", "/", "0", "2", "/", "1", "1">>,
           <<"2", "2", "5", "8", "-", "0", "2">>,
           <<"2", "2", "5", "8", "-", "0", "2", "-", "1", "1", "-", "1">>,
           <<"2", "2", "5", "8">>, <<"-", "-">>, <<"-", "2", "-", "2", "9">>,
           <<"2", "2", "6", "0", "-", "0", "2", "-", "2", "9", " ">> }

LeapCheckFns == {"None", "is_leap_year", "always_false"}

-----------------------------------------------------------------------------
(* The calling session.                                                    *)

Nothing == [type |-> "none"]

\* no prompt is running
IdleLoop ==
    [help_cb |-> "None", first |-> TRUE, shown |-> <<>>, lines |-> <<>>,
     helped |-> 0, reported |-> <<>>]

Init ==
    /\ origin = Nothing
    /\ trail = <<>>
    /\ arg = Nothing
    /\ out = NoValue
    /\ loop = IdleLoop

LastOp == IF trail = <<>> THEN "-" ELSE trail[Len(trail)].op
LastMode == IF trail = <<>> THEN "-" ELSE trail[Len(trail)].mode

\* a further call may be made on the value the last call returned
CanChain == trail # <<>> /\ Len(trail) < MaxChain /\ IsOk(out)

\* a session keeps the leap mode of its first call that took one
ModeChoices ==
    IF \E i \in 1..Len(trail) : trail[i].mode \in Modes
    THEN {trail[CHOOSE i \in 1..Len(trail) :
                    /\ trail[i].mode \in Modes
                    /\ \A j \in 1..(i - 1) : trail[j].mode \notin Modes].mode}
    ELSE Modes

\* the inputs of a call: the fresh ones for a first call, the returned value
\* for a later call when the last call was one of ops
Inputs(fresh, ops) ==
    IF trail = <<>> THEN fresh
    ELSE IF CanChain /\ LastOp \in ops THEN {out.value}
    ELSE {}

Call(op, mode, x, result) ==
    /\ origin' = IF trail = <<>> THEN x ELSE origin
    /\ trail' = Append(trail, [op |-> op, mode |-> mode])
    /\ arg' = x
    /\ out' = result
    /\ UNCHANGED loop

EarthToStardate ==
    \E mode \in ModeChoices :
      \E dt \in Inputs(Dates, {"stardate_to_earth",
                               "stardate_to_earth_astronomical"}) :
        Call("earth_to_stardate", mode, dt, earth_to_stardate(dt, mode))

EarthToStardateAstronomical ==
    \E dt \in Inputs(Dates, {"stardate_to_earth_astronomical"}) :
        Call("earth_to_stardate_astronomical", "-", dt,
             Ok(earth_to_stardate_astronomical(dt)))

StardateToEarth ==
    \E mode \in ModeChoices :
      \E sd \in Inputs(FreshStardates \cup FreshFloats,
                       {"earth_to_stardate", "str", "validate_stardate_string",
                        "validate_kelvin_stardate_string"}) :
        Call("stardate_to_earth", mode, sd, stardate_to_earth(sd, mode))

StardateToEarthAstronomical ==
    \E sd \in Inputs(AstronomicalFloats, {"earth_to_stardate_astronomical"}) :
        Call("stardate_to_earth_astronomical", "-", sd,
             stardate_to_earth_astronomical(sd))

KelvinStr ==
    \E sd \in {x \in Inputs(FreshStardates, {"earth_to_stardate", "parse"}) :
                  x.type = "KelvinStardate"} :
        Call("str", "-", sd, KelvinStardate_str(sd))

KelvinParse ==
    \E s \in Inputs({Str(x) : x \in StardateStrings}, {"str"}) :
        Call("parse", "-", s, KelvinStardate_parse(s.s))

ParseYear ==
    /\ trail = <<>>
    /\ \E s \in FieldStrings :
        Call("parse_year", "-", Str(s), parse_year(s))

ParseYearYYYY ==
    /\ trail = <<>>
    /\ \E s \in FieldStrings :
        Call("parse_year_yyyy", "-", Str(s), parse_year_yyyy(s))

ParseMonth ==
    /\ trail = <<>>
    /\ \E s \in FieldStrings :
        Call("parse_month", "-", Str(s), parse_month(s))

ParseDay ==
    /\ trail = <<>>
    /\ \E s \in FieldStrings :
        Call("parse_day", "-", Str(s), parse_day(s))

ParseEarthDate ==
    /\ trail = <<>>
    /\ \E s \in EarthDateStrings, fn \in LeapCheckFns :
        Call("parse_earth_date", fn, Str(s),
                             parse_earth_date(s, fn))

ValidateStardateString ==
    /\ trail = <<>>
    /\ \E s \in StardateStrings :
        Call("validate_stardate_string", "-", Str(s),
                             validate_stardate_string(s))

ValidateKelvinStardateString ==
    /\ trail = <<>>
    /\ \E s \in StardateStrings :
        Call("validate_kelvin_stardate_string", "-", Str(s),
                             validate_kelvin_stardate_string(s))

DetectStardateType ==
    /\ trail = <<>>
    /\ \E s \in StardateStrings :
        Call("detect_stardate_type", "-", Str(s),
                             Ok(detect_stardate_type(s)))

\* do_stardate_to_earth runs its detector on the string that
\* validate_stardate_string returned
MainDetectStardateType ==
    \E s \in Inputs({}, {"validate_stardate_string"}) :
        Call("main.detect_stardate_type", "-", s,
             Ok(main_detect_stardate_type(s.s)))

\* inputs of check_user_input: quit and help words in every spelling, blank
\* lines, near misses, and values
CheckLines ==
    { <<"q">>, <<"Q">>, <<" ", "q", "u", "i", "t", " ">>,
      <<"E", "X", "I", "T">>, <<"-", "q">>, <<"/", "q">>,
      <<"h">>, <<" ", "H", " ">>, <<"h", "e", "l", "p">>,
      <<"/", "h", "e", "l", "p">>, <<"-", "-", "h", "e", "l", "p">>, <<"-", "h", "e", "l", "p">>,
      <<"-", "h">>, <<"/", "h">>, <<>>,
      <<" ">>, <<"q", "q">>, <<"h", "e">>,
      <<"-", " ", "q">>, <<"2", "2", "5", "8">>, <<"f", "e", "b">>,
      <<"1", "1">>, <<"1", "3">>, <<"2", "2", "5", "8", ".", "0", "4", "2">>,
      <<"2", "2", "5", "8", ".", "4", "0", "0">>, <<"2", "2", "5", "8", ".", "1", "2", "3", "4">>, <<"U+00B2">>,
      <<"a", "b", "c">> }
\* lines typed at a prompt: quit words, help words, blank lines, and values
\* the parsers accept or reject
PromptLines ==
    { <<"q">>, <<" ", "q", "u", "i", "t", " ">>, <<"E", "X", "I", "T">>,
      <<"h">>, <<" ", "H", " ">>, <<>>,
      <<" ">>, <<"1", "1">>, <<"1", "3">>,
      <<"f", "e", "b">>, <<"2", "2", "5", "8">>, <<"2", "2", "5", "8", ".", "0", "4", "2">>,
      <<"2", "2", "5", "8", ".", "4", "0", "0">>, <<"U+00B2">> }
HelpCallbacks == {"None", "help_cb"}

CheckUserInput ==
    /\ trail = <<>>
    /\ \E value \in {Str(l) : l \in CheckLines} \cup {PyNone},
          help_cb \in HelpCallbacks :
        LET chk == check_user_input(value, help_cb)
        IN /\ origin' = value
           /\ trail' = <<[op |-> "check_user_input", mode |-> help_cb]>>
           /\ arg' = value
           /\ out' = chk.outcome
           /\ loop' = [IdleLoop EXCEPT !.help_cb = help_cb,
                                       !.helped = chk.help_calls]

\* prompt_until_valid is entered: nothing is shown or read yet
StartPrompt ==
    /\ trail = <<>>
    /\ \E name \in ParserFuncs, help_cb \in HelpCallbacks :
        /\ trail' = <<[op |-> "prompt_until_valid", mode |-> name]>>
        /\ out' = Pending
        /\ loop' = [IdleLoop EXCEPT !.help_cb = help_cb]
        /\ UNCHANGED <<origin, arg>>

\* the session after a pass of a prompt loop on the line raw
Handled(raw, pass) ==
    /\ loop' = pass.loop
    /\ out' = pass.out
    /\ arg' = Str(raw)
    /\ origin' = IF loop.lines = <<>> THEN Str(raw) ELSE origin
    /\ UNCHANGED trail

\* one pass of the loop: a line is read and handled
ReadLine ==
    /\ LastOp = "prompt_until_valid"
    /\ out = Pending
    /\ Len(loop.lines) < MaxReads
    /\ \E raw \in PromptLines :
        Handled(raw, prompt_pass(loop, LastMode, raw))

\* the modes normalize_mode hands to the command line's operations
CliModes == {"no_leap", "gregorian", "astronomical", "all"}

\* lines typed at a menu or at a yes/no question
ChoiceLines ==
    { <<"q">>, <<"h">>, <<>>, <<"1">>,
      <<"2">>, <<" ", "2", " ">>, <<"3">>, <<"y">>,
      <<"Y", "e", "s">>, <<" ", "n", " ">>, <<"N", "O">>, <<"m", "a", "y", "b", "e">> }

\* prompt_menu_choice or prompt_yes_no is entered
StartChoice ==
    /\ trail = <<>>
    /\ \E op \in {"prompt_menu_choice", "prompt_yes_no"},
          help_cb \in HelpCallbacks :
        /\ trail' = <<[op |-> op, mode |-> "-"]>>
        /\ out' = Pending
        /\ loop' = [IdleLoop EXCEPT !.help_cb = help_cb]
        /\ UNCHANGED <<origin, arg>>

\* one pass of the loop of a menu or a yes/no question
ReadChoice ==
    /\ LastOp \in {"prompt_menu_choice", "prompt_yes_no"}
    /\ out = Pending
    /\ Len(loop.lines) < MaxReads
    /\ \E raw \in ChoiceLines :
        Handled(raw, choice_pass(loop, LastOp, raw))

\* mode names given on the command line or at the mode prompt
ModeStrings ==
    { <<"1">>, <<"n", "o", "_", "l", "e", "a", "p">>, <<"n", "o", "l", "e", "a", "p">>, <<"n", "l">>,
      <<"c", "a", "n", "o", "n">>, <<"o", "r", "d", "i", "n", "a", "l">>, <<"2">>, <<"g", "r", "e", "g", "o", "r", "i", "a", "n">>,
      <<"g", "r", "e", "g">>, <<"g", "r">>, <<"3">>, <<"a", "s", "t", "r", "o", "n", "o", "m", "i", "c", "a", "l">>,
      <<"a", "s", "t", "r", "o">>, <<"a", "s", "t", "r">>, <<"4">>, <<"a", "l", "l">>,
      <<"a">>, <<" ", "N", "L", " ">>, <<"G", "r", "e", "g", "o", "r", "i", "a", "n">>, <<"A", "L", "L">>,
      <<>>, <<"5">>, <<"l", "e", "a", "p">>, <<"n", "o", " ", "l", "e", "a", "p">> }

NormalizeMode ==
    /\ trail = <<>>
    /\ \E s \in ModeStrings :
        Call("normalize_mode", "-", Str(s), normalize_mode(s))

\* year, month and day as the parsers or argparse deliver them
YearMonthDay(y, m, d) == [type |-> "ymd", year |-> y, month |-> m, day |-> d]

DoEarthToStardate ==
    /\ trail = <<>>
    /\ \E y \in Years, m \in 1..12, d \in {1, 28, 29, 30, 31},
          mode \in CliModes :
        Call("do_earth_to_stardate", mode, YearMonthDay(y, m, d),
             do_earth_to_stardate(y, m, d, mode))

DoStardateToEarth ==
    /\ trail = <<>>
    /\ \E s \in StardateStrings, mode \in CliModes :
        Call("do_stardate_to_earth", mode, Str(s),
             do_stardate_to_earth(s, mode))

Next ==
    \/ EarthToStardate
    \/ EarthToStardateAstronomical
    \/ StardateToEarth
    \/ StardateToEarthAstronomical
    \/ KelvinStr
    \/ KelvinParse
    \/ ParseYear
    \/ ParseYearYYYY
    \/ ParseMonth
    \/ ParseDay
    \/ ParseEarthDate
    \/ ValidateStardateString
    \/ ValidateKelvinStardateString
    \/ DetectStardateType
    \/ MainDetectStardateType
    \/ DoStardateToEarth
    \/ CheckUserInput
    \/ StartPrompt
    \/ ReadLine
    \/ StartChoice
    \/ ReadChoice
    \/ NormalizeMode
    \/ DoEarthToStardate

Spec == Init /\ [][Next]_vars

TypeOK ==
    /\ Len(trail) <= MaxChain
    /\ out.kind \in {"none", "ok", "StardateError", "StardateCLIError",
                     "ValueError", "OverflowError", "SystemExit",
                     "ContinuePrompt", "pending"}
    /\ Len(loop.lines) <= MaxReads
    /\ (trail = <<>>) = (out.kind = "none")

-----------------------------------------------------------------------------
(* Properties.                                                             *)

\* the calls of the session, as <<operation, mode>> pairs
Calls == [i \in 1..Len(trail) |-> <<trail[i].op, trail[i].mode>>]

IsFeb29(dt) == dt.month = 2 /\ dt.day = 29

\* C1 as stated: for every valid date d, converting d to a stardate in
\* no_leap mode and back in no_leap mode returns exactly d.
C1_RoundTripNoLeapEveryDate ==
    Calls = <<<<"earth_to_stardate", "no_leap">>,
              <<"stardate_to_earth", "no_leap">>>>
    => out = Ok(origin)

\* C1 as amended: the no_leap round trip returns exactly d for every valid
\* date d other than Feb 29 of a leap year, and for Feb 29 it returns Feb 28
\* of the same year.
C1_RoundTripNoLeap ==
    Calls = <<<<"earth_to_stardate", "no_leap">>,
              <<"stardate_to_earth", "no_leap">>>>
    => out = Ok(IF IsFeb29(origin) THEN Date(origin.year, 2, 28) ELSE origin)

C1_Witness ==
    /\ Calls = <<<<"earth_to_stardate", "no_leap">>,
                 <<"stardate_to_earth", "no_leap">>>>
    /\ origin = Date(2260, 3, 1)
    /\ arg = KelvinStardate(2260, 60)
    /\ out = Ok(origin)

\* C2: for every valid date d, converting d to an astronomical stardate and
\* back returns exactly d, Dec 30 and Dec 31 of leap years included.
C2_RoundTripAstronomical ==
    Calls = <<<<"earth_to_stardate_astronomical", "-">>,
              <<"stardate_to_earth_astronomical", "-">>>>
    => out = Ok(origin)

\* C3: for every valid date d, converting d to a stardate in gregorian mode
\* and back in gregorian mode returns exactly d, whether the stardate is
\* passed on as a KelvinStardate value or as its formatted string.
C3_RoundTripGregorian ==
    (\/ Calls = <<<<"earth_to_stardate", "gregorian">>,
                  <<"stardate_to_earth", "gregorian">>>>
     \/ Calls = <<<<"earth_to_stardate", "gregorian">>, <<"str", "-">>,
                  <<"stardate_to_earth", "gregorian">>>>)
    => out = Ok(origin)

C3_Witness ==
    /\ Calls = <<<<"earth_to_stardate", "gregorian">>, <<"str", "-">>,
                 <<"stardate_to_earth", "gregorian">>>>
    /\ origin = Date(2260, 3, 1)
    /\ arg = Str(<<"2", "2", "6", "0", ".", "6", "1">>)
    /\ out = Ok(origin)

\* C4: for a date of a leap year the no_leap ordinal is the gregorian ordinal
\* minus 1 when the day of the year is above 59 and equal to it otherwise;
\* for a date of a non-leap year the two ordinals are equal.
C4_LeapCompression ==
    Calls = <<<<"earth_to_stardate", "no_leap">>>>
    => LET greg == earth_to_stardate(arg, "gregorian")
       IN /\ IsOk(out) /\ IsOk(greg)
          /\ out.value.ordinal_day =
                IF is_leap_year(arg.year) /\ day_of_year(arg) > 59
                THEN greg.value.ordinal_day - 1
                ELSE greg.value.ordinal_day

C4_Witness ==
    /\ Calls = <<<<"earth_to_stardate", "no_leap">>>>
    /\ arg = Date(2260, 2, 29)
    /\ out = Ok(KelvinStardate(2260, 59))

\* C5: for every valid date, earth_to_stardate in no_leap mode returns a
\* KelvinStardate of the date's year whose ordinal_day is in 1..365.
C5_NoLeapOrdinalRange ==
    Calls = <<<<"earth_to_stardate", "no_leap">>>>
    => /\ IsOk(out)
       /\ out.value.type = "KelvinStardate"
       /\ out.value.year = arg.year
       /\ out.value.ordinal_day \in 1..365

C5_Witness ==
    /\ Calls = <<<<"earth_to_stardate", "no_leap">>>>
    /\ arg = Date(2260, 12, 31)
    /\ out = Ok(KelvinStardate(2260, 365))

\* number of decimal digits of a natural number below 100000
NumDigits(n) ==
    IF n < 10 THEN 1 ELSE IF n < 100 THEN 2 ELSE IF n < 1000 THEN 3
    ELSE IF n < 10000 THEN 4 ELSE 5

\* C6: for every year y and every ordinal d >= 1, str(KelvinStardate(y, d))
\* is y, a ".", and d zero-padded to 2 digits when d < 100 and to 3 digits
\* otherwise; parsing that string gives KelvinStardate(y, d) back.
C6_FormattingInvariant ==
    /\ (Calls = <<<<"str", "-">>>> /\ arg.ordinal_day >= 1)
       => /\ IsOk(out)
          /\ LET s == out.value.s
                 i == FirstIndex(s, ".")
                 left == SubSeq(s, 1, i - 1)
                 right == SubSeq(s, i + 1, Len(s))
                 d == arg.ordinal_day
             IN /\ i > 0
                /\ left = IntToStr(arg.year)
                /\ \A k \in 1..Len(right) : right[k] \in AsciiDigits
                /\ DigitsValue(right) = d
                /\ Len(right) = IF d < 100 THEN 2
                                ELSE IF d < 1000 THEN 3 ELSE NumDigits(d)
    /\ (Calls = <<<<"str", "-">>, <<"parse", "-">>>> /\ origin.ordinal_day >= 1)
       => out = Ok(origin)

C6_Witness ==
    /\ Calls = <<<<"str", "-">>, <<"parse", "-">>>>
    /\ origin = KelvinStardate(2258, 4)
    /\ arg = Str(<<"2", "2", "5", "8", ".", "0", "4">>)
    /\ out = Ok(origin)

\* C7: validate_kelvin_stardate_string accepts a string if and only if it has
\* no "-", exactly one ".", a 4-digit all-digit year part with value in
\* 1..9999 and a 3-digit all-digit fraction part with value in 1..366; every
\* rejected non-blank string fails with a StardateCLIError.
C7_ValidatorDeterminism ==
    Calls = <<<<"validate_kelvin_stardate_string", "-">>>>
    => LET s == strip(arg.s)
           parts == SplitFirst(s, ".")
           InRange(part, lo, hi) ==
               /\ isdigit(part)
               /\ IsOk(py_int(part))
               /\ lo <= py_int(part).value /\ py_int(part).value <= hi
           acceptable ==
               /\ ~Contains(s, "-")
               /\ Count(s, ".") = 1
               /\ Len(parts[1]) = 4 /\ InRange(parts[1], 1, 9999)
               /\ Len(parts[2]) = 3 /\ InRange(parts[2], 1, 366)
       IN /\ IsOk(out) <=> acceptable
          /\ (~IsOk(out) /\ s # <<>>) => out.kind = "StardateCLIError"

Validators ==
    {"parse_year", "parse_year_yyyy", "parse_month", "parse_day",
     "parse_earth_date", "validate_stardate_string",
     "validate_kelvin_stardate_string"}

\* C8: every validator is total over strings: it returns a value or raises a
\* StardateCLIError that carries an error code, never an unstructured error.
C8_ValidatorsTotal ==
    (Len(trail) = 1 /\ LastOp \in Validators)
    => \/ IsOk(out)
       \/ out.kind = "StardateCLIError" /\ out.code # "-"

\* C9: for a KelvinStardate of a year that has calendar dates (1..9999),
\* stardate_to_earth in no_leap mode fails with StardateError unless
\* 1 <= ordinal_day <= 365; otherwise it returns the date of that year whose
\* day of the year is ordinal_day + 1 when the year is leap and
\* ordinal_day > 59, and ordinal_day otherwise.
C9_NoLeapBackward ==
    (/\ LastOp = "stardate_to_earth" /\ LastMode = "no_leap"
     /\ arg.type = "KelvinStardate"
     /\ arg.year \in MINYEAR..MAXYEAR)
    => IF ~(1 <= arg.ordinal_day /\ arg.ordinal_day <= 365)
       THEN out.kind = "StardateError"
       ELSE /\ IsOk(out)
            /\ IsValidDate(out.value)
            /\ out.value.year = arg.year
            /\ day_of_year(out.value) =
                  IF is_leap_year(arg.year) /\ arg.ordinal_day > 59
                  THEN arg.ordinal_day + 1
                  ELSE arg.ordinal_day

C9_Witness ==
    /\ Calls = <<<<"stardate_to_earth", "no_leap">>>>
    /\ arg = KelvinStardate(2260, 60)
    /\ out = Ok(Date(2260, 3, 1))

\* C10: for a KelvinStardate of a year that has calendar dates (1..9999),
\* stardate_to_earth in gregorian mode fails with StardateError unless
\* 1 <= ordinal_day <= days_in_year(year), 366 for a leap year and 365
\* otherwise; otherwise it returns the date of that year whose day of the
\* year is ordinal_day.
C10_GregorianBackward ==
    (/\ LastOp = "stardate_to_earth" /\ LastMode = "gregorian"
     /\ arg.type = "KelvinStardate"
     /\ arg.year \in MINYEAR..MAXYEAR)
    => IF ~(1 <= arg.ordinal_day /\ arg.ordinal_day <= DaysInYear(arg.year))
       THEN out.kind = "StardateError"
       ELSE /\ IsOk(out)
            /\ IsValidDate(out.value)
            /\ out.value.year = arg.year
            /\ day_of_year(out.value) = arg.ordinal_day

C10_Witness ==
    /\ Calls = <<<<"stardate_to_earth", "gregorian">>>>
    /\ arg = KelvinStardate(2260, 366)
    /\ out = Ok(Date(2260, 12, 31))

\* C11 as stated: earth_to_stardate accepts only the modes no_leap and
\* gregorian; with any other mode, "astronomical" and "all" included, it
\* fails with StardateError and returns no value.
C11_OnlyKelvinModesAccepted ==
    (LastOp = "earth_to_stardate" /\ LastMode \notin {"no_leap", "gregorian"})
    => out.kind = "StardateError"

\* C11 as amended: earth_to_stardate accepts the modes no_leap, gregorian and
\* astronomical, and in astronomical mode it returns the float of
\* earth_to_stardate_astronomical; with any other mode, "all" included, it
\* fails with StardateError and returns no value.
C11_UnknownModeRejected ==
    LastOp = "earth_to_stardate"
    => /\ LastMode \in {"no_leap", "gregorian"}
          => IsOk(out) /\ out.value.type = "KelvinStardate"
       /\ LastMode = "astronomical"
          => IsOk(out) /\ out.value.type = "float"
       /\ LastMode \notin {"no_leap", "gregorian", "astronomical"}
          => out.kind = "StardateError"

C11_Witness ==
    /\ Calls = <<<<"earth_to_stardate", "all">>>>
    /\ arg = Date(2258, 2, 11)
    /\ out.kind = "StardateError"

\* C12: stardate_to_earth given a float in no_leap or gregorian mode fails
\* with StardateError, and given a string or a KelvinStardate in
\* astronomical mode it fails with StardateError; no date is returned.
C12_TypeModeMismatch ==
    (/\ LastOp = "stardate_to_earth"
     /\ \/ arg.type = "float" /\ LastMode \in {"no_leap", "gregorian"}
        \/ arg.type \in {"str", "KelvinStardate"} /\ LastMode = "astronomical")
    => out.kind = "StardateError"

C12_Witness ==
    /\ Calls = <<<<"str", "-">>, <<"stardate_to_earth", "astronomical">>>>
    /\ arg = Str(<<"2", "2", "5", "8", ".", "4", "2">>)
    /\ out.kind = "StardateError"

\* C13: KelvinStardate.parse splits its argument on the first "."; when
\* there is a ".", the left part is an integer and the right part is
\* non-empty and all digits, it returns KelvinStardate(int(left), int(right))
\* without a range check; in every other case it fails with StardateError.
C13_ParseContract ==
    LastOp = "parse"
    => LET parts == SplitFirst(arg.s, ".")
           wellFormed == /\ Contains(arg.s, ".")
                         /\ IsOk(py_int(parts[1]))
                         /\ Len(parts[2]) > 0
                         /\ isdigit(parts[2])
       IN IF wellFormed
          THEN out = Ok(KelvinStardate(py_int(parts[1]).value,
                                       py_int(parts[2]).value))
          ELSE out.kind = "StardateError"

\* C14: validate_stardate_string accepts a non-blank string if and only if,
\* after trimming, it has no "-", exactly one ".", both sides of the "."
\* non-empty and all digits (str.isdigit), a year part of exactly 4 digits
\* with an integer value in 1..9999 and a fractional part of at most 8
\* characters; on acceptance it returns the trimmed input unchanged.
C14_StardateStringAcceptance ==
    (LastOp = "validate_stardate_string" /\ strip(arg.s) # <<>>)
    => LET s == strip(arg.s)
           parts == SplitFirst(s, ".")
           acceptable ==
               /\ ~Contains(s, "-")
               /\ Count(s, ".") = 1
               /\ isdigit(parts[1])
               /\ isdigit(parts[2])
               /\ Len(parts[1]) = 4
               /\ IsOk(py_int(parts[1]))
               /\ py_int(parts[1]).value \in 1..9999
               /\ Len(parts[2]) <= 8
       IN /\ IsOk(out) <=> acceptable
          /\ IsOk(out) => out.value = Str(s)

C14_Witness ==
    /\ Calls = <<<<"validate_stardate_string", "-">>>>
    /\ arg = Str(<<" ", "2", "2", "5", "8", ".", "0", "4", "2", " ">>)
    /\ out = Ok(Str(<<"2", "2", "5", "8", ".", "0", "4", "2">>))

\* C15 as stated: parse_earth_date fails with E012 unless the trimmed string
\* splits on "-" into exactly 3 parts; it then applies parse_year,
\* parse_month and parse_day in that order and returns (year, month, day);
\* with a leap check supplied, Feb 29 of a year the check rejects fails with
\* E003, which is not the code of a day outside 1..31.
C15_EarthDateOrder ==
    LastOp = "parse_earth_date"
    => LET parts == Split(strip(arg.s), "-")
           y == parse_year(parts[1])
           m == parse_month(parts[2])
           d == parse_day(parts[3])
       IN IF Len(parts) # 3 THEN out = RaiseCLI("E012")
          ELSE IF ~IsOk(y) THEN out = y
          ELSE IF ~IsOk(m) THEN out = m
          ELSE IF ~IsOk(d) THEN out = d
          ELSE IF /\ LastMode # "None"
                  /\ m.value = 2 /\ d.value = 29
                  /\ ~LeapCheck(LastMode, y.value)
          THEN out = RaiseCLI("E003") /\ out # parse_day(<<"3", "2">>)
          ELSE out = Ok(<<y.value, m.value, d.value>>)

\* C15 as amended: a blank string fails with E001; a non-blank string fails
\* with E012 unless, trimmed, it splits on "-" into exactly 3 parts; the
\* three field parsers are then applied in the order year, month, day and
\* the first failure is the result; with a leap check supplied, Feb 29 of a
\* year the check rejects fails with E003, which is not the code of a day
\* outside 1..31; otherwise (year, month, day) is returned.
C15_EarthDateOrderNonBlank ==
    LastOp = "parse_earth_date"
    => IF strip(arg.s) = <<>> THEN out = RaiseCLI("E001")
       ELSE C15_EarthDateOrder

C15_Witness ==
    /\ Calls = <<<<"parse_earth_date", "is_leap_year">>>>
    /\ arg = Str(<<"2", "2", "5", "8", "-", "0", "2", "-", "2", "9">>)
    /\ out = RaiseCLI("E003")

\* C16: parse_year accepts exactly the trimmed all-digit strings without "."
\* whose value is in 1..9999, and parse_year_yyyy exactly those of 4
\* characters; a string with a ".", a non-digit character or (for
\* parse_year_yyyy) a length other than 4 fails with E007, and an all-digit
\* string of acceptable form with a value outside 1..9999 fails with E008.
C16_YearParsers ==
    (LastOp \in {"parse_year", "parse_year_yyyy"} /\ strip(arg.s) # <<>>)
    => LET raw == strip(arg.s)
       IN IF \/ Contains(raw, ".")
             \/ ~isdigit(raw)
             \/ LastOp = "parse_year_yyyy" /\ Len(raw) # 4
          THEN out = RaiseCLI("E007")
          ELSE IF IsOk(py_int(raw)) /\ py_int(raw).value \in 1..9999
          THEN out = py_int(raw)
          ELSE out = RaiseCLI("E008")

\* C17: parse_month returns the month number for a case-insensitive exact
\* match of the trimmed input against the name table or for a digit string
\* with value in 1..12, and parse_day returns the value of a digit string in
\* 1..31; every other non-blank input to either parser fails with E002.
C17_MonthDayParsers ==
    (LastOp \in {"parse_month", "parse_day"} /\ strip(arg.s) # <<>>)
    => LET raw == strip(arg.s)
           top == IF LastOp = "parse_month" THEN 12 ELSE 31
       IN IF LastOp = "parse_month" /\ lower(raw) \in MonthNames
          THEN out = Ok(MonthOf(lower(raw)))
          ELSE IF /\ isdigit(raw)
                  /\ IsOk(py_int(raw))
                  /\ py_int(raw).value \in 1..top
          THEN out = py_int(raw)
          ELSE out = RaiseCLI("E002")

\* C18: detect_stardate_type returns "astronomical" exactly when the trimmed
\* string has a "." and everything after the first "." is all digits
\* (str.isdigit) and at least 4 characters long; for every other string it
\* returns "kelvin", and it never fails.
C18_DetectStardateType ==
    LastOp \in {"detect_stardate_type", "main.detect_stardate_type"}
    => LET s == strip(arg.s)
           i == FirstIndex(s, ".")
           frac == SubSeq(s, i + 1, Len(s))
       IN out = Ok(IF i > 0 /\ isdigit(frac) /\ Len(frac) >= 4
                   THEN "astronomical" ELSE "kelvin")

C18_Witness ==
    /\ Calls = <<<<"detect_stardate_type", "-">>>>
    /\ arg = Str(<<"2", "2", "5", "8", ".", "1", "2", "3", "4">>)
    /\ out = Ok("astronomical")

\* the call converted a date to a fractional stardate
IsAstronomicalForward ==
    \/ LastOp = "earth_to_stardate_astronomical"
    \/ LastOp = "earth_to_stardate" /\ LastMode = "astronomical"

\* C19: earth_to_stardate_astronomical(d) is year + day_of_year(d)/365.2425
\* rounded to 5 decimals, with the Gregorian day of the year and no leap
\* compression (in a leap year Mar 1 is day 61, two days after Feb 28), and
\* it never fails.  With T the result minus the year in units of 10^-5,
\* T is the integer nearest to doy * 40000000 / 146097; as
\* 40000000 = 273 * 146097 + 115519 the distance is measured on T - 273 * doy.
C19_AstronomicalForward ==
    IsAstronomicalForward
    => /\ IsOk(out)
       /\ out.value.type = "float"
       /\ LET doy == day_of_year(arg)
              T == (out.value.whole - arg.year) * FracScale + out.value.frac
              R == T - 273 * doy
              D == R * 146097 - doy * 115519
          IN /\ out.value.frac \in 0..(FracScale - 1)
             /\ 2 * D <= 146097 /\ 2 * D >= 0 - 146097
             /\ (arg.month = 2 /\ arg.day = 28) => T = 16154
             /\ (arg.month = 3 /\ arg.day = 1 /\ is_leap_year(arg.year))
                => T = 16701
             /\ (arg.month = 3 /\ arg.day = 1 /\ ~is_leap_year(arg.year))
                => T = 16427

C19_Witness ==
    /\ LastOp = "earth_to_stardate_astronomical"
    /\ arg = Date(2260, 3, 1)
    /\ out = Ok(Float(2260, 16701))

\* the call converted a fractional stardate of a year 1..9999 to a date
IsAstronomicalBackward ==
    /\ \/ LastOp = "stardate_to_earth_astronomical"
       \/ LastOp = "stardate_to_earth" /\ LastMode = "astronomical"
    /\ arg.type = "float"
    /\ arg.whole \in MINYEAR..MAXYEAR

\* C20: stardate_to_earth_astronomical(v) returns the ordinal_day-th day of
\* year floor(v), where ordinal_day is round((v - floor(v)) * 365.2425)
\* raised to 1 when the rounding gives 0 or less; the result is never
\* earlier than Jan 1 of year floor(v).  With f the fraction in units of
\* 10^-5 and k the day of the year of the result, k is the integer nearest
\* to f * 146097 / 40000000 or k = 1 below that; as
\* 20000000 = 136 * 146097 + 130808 the comparison with (2k - 1) / 2 and
\* (2k + 1) / 2 is made on f - 136 * (2k - 1) and f - 136 * (2k + 1).
C20_AstronomicalBackward ==
    IsAstronomicalBackward
    => /\ IsOk(out)
       /\ out.value.type = "date"
       /\ out.value.year = arg.whole
       /\ LET k == day_of_year(out.value)
              lo == 2 * k - 1
              hi == 2 * k + 1
          IN /\ k >= 1
             /\ (arg.frac - 136 * hi) * 146097 <= hi * 130808
             /\ k = 1 \/ (arg.frac - 136 * lo) * 146097 >= lo * 130808

C20_Witness ==
    /\ LastOp = "stardate_to_earth_astronomical"
    /\ arg = Float(2258, 1)
    /\ out = Ok(Date(2258, 1, 1))

\* C21: in the single-mode path of do_stardate_to_earth the detector selects
\* the conversion family only when the caller has not pinned a mode: with
\* mode no_leap or gregorian the Kelvin ordinal conversion of that mode is
\* applied to the validated stardate, whatever the number of fraction digits.
C21_PinnedModeApplied ==
    (/\ LastOp = "do_stardate_to_earth"
     /\ LastMode \in {"no_leap", "gregorian"}
     /\ IsOk(validate_stardate_string(arg.s)))
    => LET sd_str == validate_stardate_string(arg.s).value
           r == stardate_to_earth(sd_str, LastMode)
       IN IF IsOk(r)
          THEN out = Ok(SingleResult(LastMode, r.value, sd_str.s))
          ELSE out.kind = r.kind

\* the stardate a call of stardate_to_earth worked on: the value given, or
\* the one parsed from the string given
StardateOf(x) ==
    IF x.type = "str" THEN KelvinStardate_parse(x.s) ELSE Ok(x)

IsKelvinBackward(mode) ==
    /\ LastOp = "stardate_to_earth" /\ LastMode = mode
    /\ arg.type \in {"KelvinStardate", "str"}
    /\ IsOk(StardateOf(arg))

\* C22: in no_leap mode the failure "Real ordinal exceeds year length" is
\* unreachable: for every year and every ordinal that passed the 1..365
\* check, the real ordinal (the ordinal, plus 1 after day 59 of a leap year)
\* is at most the year's length, so the call does not fail with
\* StardateError.
C22_DefensiveCheckUnreachable ==
    (/\ IsKelvinBackward("no_leap")
     /\ StardateOf(arg).value.ordinal_day \in 1..365)
    => LET sd == StardateOf(arg).value
           real_ordinal == IF is_leap_year(sd.year) /\ sd.ordinal_day > 59
                           THEN sd.ordinal_day + 1
                           ELSE sd.ordinal_day
       IN /\ real_ordinal <= (IF is_leap_year(sd.year) THEN 366 ELSE 365)
          /\ out.kind # "StardateError"
          /\ sd.year \in MINYEAR..MAXYEAR
             => IsOk(out) /\ day_of_year(out.value) = real_ordinal

C22_Witness ==
    /\ Calls = <<<<"stardate_to_earth", "no_leap">>>>
    /\ arg = KelvinStardate(2260, 365)
    /\ out = Ok(Date(2260, 12, 31))

\* C23: check_user_input classifies an input in a fixed order: a quit word
\* (q, -q, /q, quit, exit, in any case, surrounding whitespace ignored)
\* raises SystemExit; else a help word calls help_cb exactly once (when
\* given) and raises ContinuePrompt; else a blank input raises
\* StardateCLIError E001; every other input is returned unchanged and
\* help_cb is not called.
C23_CheckUserInput ==
    (LastOp = "check_user_input" /\ arg.type = "str")
    => LET word == lower(strip(arg.s))
       IN IF word \in {<<"q">>, <<"-", "q">>, <<"/", "q">>,
                       <<"q", "u", "i", "t">>, <<"e", "x", "i", "t">>}
          THEN out.kind = "SystemExit" /\ loop.helped = 0
          ELSE IF word \in HelpWords
          THEN /\ out.kind = "ContinuePrompt"
               /\ loop.helped = IF LastMode = "help_cb" THEN 1 ELSE 0
          ELSE IF word = <<>>
          THEN out = RaiseCLI("E001") /\ loop.helped = 0
          ELSE out = Ok(arg) /\ loop.helped = 0

C23_Witness ==
    /\ Calls = <<<<"check_user_input", "help_cb">>>>
    /\ arg = Str(<<" ", "H", " ">>)
    /\ out.kind = "ContinuePrompt"
    /\ loop.helped = 1

\* what one line does to a prompt that uses the parser name
LineOutcome(name, raw) ==
    LET chk == check_user_input(Str(raw), "None").outcome
    IN IF IsOk(chk) THEN parser_func(name, raw) ELSE chk

\* the codes reported for a sequence of lines
RECURSIVE ReportedFor(_, _)
ReportedFor(name, lines) ==
    IF lines = <<>> THEN <<>>
    ELSE LET r == LineOutcome(name, Head(lines))
         IN (IF r.kind = "StardateCLIError" THEN <<r.code>>
             ELSE IF r.kind = "ValueError" THEN <<"E002">>
             ELSE <<>>) \o ReportedFor(name, Tail(lines))

\* C24: prompt_until_valid, over any sequence of input lines, returns only
\* the value parser_func produced for a line that passed check_user_input;
\* a help request, a StardateCLIError or a ValueError of the parser
\* (reported as E002) never escapes the loop but leads to another read; the
\* prompt text is shown for the first read only and the reprompt text for
\* every later read; only a quit word ends the loop without a value.
C24_PromptUntilValid ==
    LastOp = "prompt_until_valid"
    => LET n == Len(loop.lines)
           last == loop.lines[n]
           ended == out # Pending
           reread == IF ended THEN n - 1 ELSE n
       IN /\ out.kind \in {"pending", "ok", "SystemExit"}
          /\ ended => n >= 1
          /\ out.kind = "ok"
             => /\ IsOk(check_user_input(Str(last), loop.help_cb).outcome)
                /\ out = parser_func(LastMode, last)
          /\ out.kind = "SystemExit" => lower(strip(last)) \in QuitWords
          /\ \A i \in 1..reread :
                LineOutcome(LastMode, loop.lines[i]).kind
                    \in {"ContinuePrompt", "StardateCLIError", "ValueError"}
          /\ loop.reported = ReportedFor(LastMode, loop.lines)
          /\ Len(loop.shown) = n
          /\ \A i \in 1..n :
                loop.shown[i] = IF i = 1 THEN "prompt" ELSE "reprompt"

C24_Witness ==
    /\ Calls = <<<<"prompt_until_valid", "parse_day">>>>
    /\ loop.lines = <<<<"U+00B2">>, <<"h">>, <<"1", "1">>>>
    /\ loop.reported = <<"E002">>
    /\ loop.shown = <<"prompt", "reprompt", "reprompt">>
    /\ out = Ok(11)

\* C25: every error code carried by a StardateCLIError that a validator, a
\* prompt helper or a command line operation raises is a key of
\* ERROR_REGISTRY, so the error's registry info is never missing; the codes
\* a prompt reports are among them.
C25_CodesRegistered ==
    /\ out.kind = "StardateCLIError" => out.code \in ERROR_REGISTRY
    /\ \A i \in 1..Len(loop.reported) : loop.reported[i] \in ERROR_REGISTRY

C25_Witness ==
    /\ Calls = <<<<"normalize_mode", "-">>>>
    /\ arg = Str(<<"l", "e", "a", "p">>)
    /\ out = RaiseCLI("E006")

\* C26: stardate_to_earth in no_leap mode never returns February 29; for
\* every year that has calendar dates and every ordinal in 1..365 it returns
\* a date, ordinal 59 gives Feb 28 and ordinal 60 gives Mar 1, in leap and
\* in non-leap years alike.
C26_NoLeapNeverFeb29 ==
    /\ (LastOp = "stardate_to_earth" /\ LastMode = "no_leap" /\ IsOk(out))
       => ~(out.value.month = 2 /\ out.value.day = 29)
    /\ (/\ IsKelvinBackward("no_leap")
        /\ StardateOf(arg).value.ordinal_day \in 1..365
        /\ StardateOf(arg).value.year \in MINYEAR..MAXYEAR)
       => LET sd == StardateOf(arg).value
          IN /\ IsOk(out)
             /\ out.value.year = sd.year
             /\ sd.ordinal_day = 59 => out.value = Date(sd.year, 2, 28)
             /\ sd.ordinal_day = 60 => out.value = Date(sd.year, 3, 1)

C26_Witness ==
    /\ Calls = <<<<"stardate_to_earth", "no_leap">>>>
    /\ arg = KelvinStardate(2260, 59)
    /\ out = Ok(Date(2260, 2, 28))

\* C27: backward then forward: for every year in 1..9999 and every ordinal
\* stardate_to_earth accepts in mode m (1..365 for no_leap, 1..days_in_year
\* for gregorian), stardate_to_earth returns a date and earth_to_stardate of
\* that date in the same mode is the KelvinStardate the session began with.
C27_BackwardForwardRoundTrip ==
    \A m \in {"no_leap", "gregorian"} :
      /\ (/\ Calls = <<<<"stardate_to_earth", m>>>>
          /\ arg.type = "KelvinStardate"
          /\ arg.year \in MINYEAR..MAXYEAR
          /\ arg.ordinal_day >= 1
          /\ arg.ordinal_day <= (IF m = "gregorian" /\ is_leap_year(arg.year)
                                 THEN 366 ELSE 365))
         => IsOk(out) /\ earth_to_stardate(out.value, m) = Ok(arg)
      /\ (/\ Calls = <<<<"stardate_to_earth", m>>, <<"earth_to_stardate", m>>>>
          /\ origin.type = "KelvinStardate")
         => out = Ok(origin)

C27_Witness ==
    /\ Calls = <<<<"stardate_to_earth", "no_leap">>,
                 <<"earth_to_stardate", "no_leap">>>>
    /\ origin = KelvinStardate(2260, 60)
    /\ arg = Date(2260, 3, 1)
    /\ out = Ok(origin)

\* C28: for every string validate_kelvin_stardate_string accepts,
\* stardate_to_earth of the accepted string in no_leap or gregorian mode
\* returns a date of the year the string names, or fails with the core
\* StardateError, and that only for ordinal 366 in no_leap mode or in a
\* non-leap year; no other error comes out.
C28_AcceptedKelvinStrings ==
    \A m \in {"no_leap", "gregorian"} :
      Calls = <<<<"validate_kelvin_stardate_string", "-">>,
                <<"stardate_to_earth", m>>>>
      => LET parts == SplitFirst(arg.s, ".")
             year == py_int(parts[1]).value
             ordinal == py_int(parts[2]).value
             refused == ordinal = 366 /\ (m = "no_leap" \/ ~is_leap_year(year))
         IN IF refused THEN out = Raise("StardateError")
            ELSE IsOk(out) /\ out.value.year = year

C28_Witness ==
    /\ Calls = <<<<"validate_kelvin_stardate_string", "-">>,
                 <<"stardate_to_earth", "no_leap">>>>
    /\ origin = Str(<<" ", "2", "2", "6", "0", ".", "3", "6", "6">>)
    /\ arg = Str(<<"2", "2", "6", "0", ".", "3", "6", "6">>)
    /\ out = Raise("StardateError")

\* C29: for every value v with 1 <= floor(v) <= 9999 the day of the year
\* stardate_to_earth_astronomical computes lies in 1..365: the call returns
\* a date, and the date lies in year floor(v), never in the year after.
C29_AstronomicalStaysInYear ==
    (/\ LastOp = "stardate_to_earth_astronomical"
     /\ arg.type = "float"
     /\ arg.whole \in MINYEAR..MAXYEAR)
    => /\ IsOk(out)
       /\ out.value.year = arg.whole
       /\ day_of_year(out.value) \in 1..365

C29_Witness ==
    /\ LastOp = "stardate_to_earth_astronomical"
    /\ arg = Float(2258, 99999)
    /\ out = Ok(Date(2258, 12, 31))

\* C30 as stated: every error the library raises on purpose, the
\* StardateError of the core conversion functions and the StardateCLIError
\* of the validators alike, is an instance of the StardateError the package
\* exports, so one except clause for it catches them all.
C30_OneExportedBase ==
    out.kind \in {"StardateError", "StardateCLIError"}
    => issubclass(ExceptionClass(out), ExportedStardateError)

=============================================================================
